---- MODULE Spec2Model ----
(***************************************************************************)
(* Model of src/bot.py: the Telegram handler handle_message, the analysis  *)
(* pipeline summarize_youtube and the pure helpers extract_video_id,       *)
(* format_duration, format_views and get_detective_reaction.               *)
(*                                                                         *)
(* A Python str is a sequence of one-character strings.  None and the      *)
(* empty str are both the empty sequence wherever the code only tests      *)
(* truthiness (`if text and ...`, `if not video_id`, `if hours:`).         *)
(***************************************************************************)
EXTENDS Integers, Sequences, FiniteSets, TLC

VARIABLES
    pc,          \* per request: position inside handle_message / summarize_youtube
    text,        \* per request: update.effective_message.text
    message,     \* per request: update.message as line 331 finds it, TRUE = set (it
                 \* is None on an edited message or a channel post, which only
                 \* effective_message holds)
    status_msg,  \* per request: local variable status_msg (a message id, 0 = unset)
    video_id,    \* per request: local variable video_id
    info,        \* per request: what youtube.videos().list(...).execute() did
    result,      \* per request: what model.generate_content([prompt]) did
    calls,       \* per request: history of the calls issued, to the transport
                 \* (reply_text, edit_text) and to the two upstream services
    chat,        \* the chat transport: messages sent so far, with the edits applied
    arg,         \* harness for the pure helpers: the argument
    ret,         \* harness for the pure helpers: the returned value
    fpc          \* harness for the pure helpers: "ready" / "done" / "off"

vars == <<pc, text, message, status_msg, video_id, info, result, calls, chat, arg, ret, fpc>>
pipeVars == <<pc, text, message, status_msg, video_id, info, result, calls, chat>>
fnVars == <<arg, ret, fpc>>

(***************************************************************************)
(* Characters and str helpers                                              *)
(***************************************************************************)
Digits == {"0","1","2","3","4","5","6","7","8","9"}
LowerLetters == {"a","b","c","d","e","f","g","h","i","j","k","l","m",
                 "n","o","p","q","r","s","t","u","v","w","x","y","z"}
UpperLetters == {"A","B","C","D","E","F","G","H","I","J","K","L","M",
                 "N","O","P","Q","R","S","T","U","V","W","X","Y","Z"}
\* [0-9A-Za-z_-]
IdChars == Digits \cup LowerLetters \cup UpperLetters \cup {"_", "-"}
\* \w
WordChars == Digits \cup LowerLetters \cup UpperLetters \cup {"_"}
\* \s
SpaceChars == {" ", "\n", "\t"}

None == << >>

RECURSIVE Concat(_)
Concat(parts) ==
    IF parts = << >> THEN << >> ELSE Head(parts) \o Concat(Tail(parts))

\* s[i:] starts with p (1-based i)
StartsAt(s, i, p) ==
    /\ i >= 1
    /\ i + Len(p) - 1 <= Len(s)
    /\ \A k \in 1..Len(p) : s[i + k - 1] = p[k]

\* `p in s`
Contains(s, p) == \E i \in 1..(Len(s) + 1) : StartsAt(s, i, p)

\* end (exclusive) of the maximal run of characters of class cls starting at i
RECURSIVE RunEnd(_, _, _)
RunEnd(s, i, cls) ==
    IF i <= Len(s) /\ s[i] \in cls THEN RunEnd(s, i + 1, cls) ELSE i

UpperToLower ==
    [c \in UpperLetters |->
        CASE c = "A" -> "a" [] c = "B" -> "b" [] c = "C" -> "c" [] c = "D" -> "d"
          [] c = "E" -> "e" [] c = "F" -> "f" [] c = "G" -> "g" [] c = "H" -> "h"
          [] c = "I" -> "i" [] c = "J" -> "j" [] c = "K" -> "k" [] c = "L" -> "l"
          [] c = "M" -> "m" [] c = "N" -> "n" [] c = "O" -> "o" [] c = "P" -> "p"
          [] c = "Q" -> "q" [] c = "R" -> "r" [] c = "S" -> "s" [] c = "T" -> "t"
          [] c = "U" -> "u" [] c = "V" -> "v" [] c = "W" -> "w" [] c = "X" -> "x"
          [] c = "Y" -> "y" [] c = "Z" -> "z"]

\* str.lower()
Lower(s) == [k \in 1..Len(s) |-> IF s[k] \in UpperLetters THEN UpperToLower[s[k]] ELSE s[k]]

\* str.strip()
RECURSIVE LStrip(_)
LStrip(s) == IF s # << >> /\ Head(s) \in SpaceChars THEN LStrip(Tail(s)) ELSE s
RECURSIVE RStrip(_)
RStrip(s) ==
    IF s # << >> /\ s[Len(s)] \in SpaceChars THEN RStrip(SubSeq(s, 1, Len(s) - 1)) ELSE s
Strip(s) == RStrip(LStrip(s))

DigitOf == [d \in 0..9 |->
    CASE d = 0 -> "0" [] d = 1 -> "1" [] d = 2 -> "2" [] d = 3 -> "3" [] d = 4 -> "4"
      [] d = 5 -> "5" [] d = 6 -> "6" [] d = 7 -> "7" [] d = 8 -> "8" [] d = 9 -> "9"]

\* str(n) for a non-negative int
RECURSIVE IntToStr(_)
IntToStr(n) ==
    IF n < 10 THEN <<DigitOf[n]>> ELSE IntToStr(n \div 10) \o <<DigitOf[n % 10]>>

(***************************************************************************)
(* extract_video_id                                                        *)
(***************************************************************************)
IdLen == 11

\* ([0-9A-Za-z_-]{11}) at position i
IdAt(s, i) ==
    /\ i + IdLen - 1 <= Len(s)
    /\ \A k \in i..(i + IdLen - 1) : s[k] \in IdChars

EMBED == <<"e","m","b","e","d","/">>
YOUTU_BE == <<"y","o","u","t","u",".","b","e","/">>

\* PatternAt with the first pattern written without its "/" alternative
PatternAt_NoSlash(p, s, i) ==
    CASE p = 1 ->
            IF StartsAt(s, i, <<"v", "=">>) /\ IdAt(s, i + 2)
            THEN SubSeq(s, i + 2, i + 1 + IdLen)
            ELSE None
      [] p = 2 ->
            IF StartsAt(s, i, EMBED) /\ IdAt(s, i + Len(EMBED))
            THEN SubSeq(s, i + Len(EMBED), i + Len(EMBED) + IdLen - 1)
            ELSE None
      [] p = 3 ->
            IF StartsAt(s, i, YOUTU_BE) /\ IdAt(s, i + Len(YOUTU_BE))
            THEN SubSeq(s, i + Len(YOUTU_BE), i + Len(YOUTU_BE) + IdLen - 1)
            ELSE None

\* The group captured when pattern p matches starting exactly at position i, else None.
\*   1: (?:v=|/)([0-9A-Za-z_-]{11}).*    2: (?:embed/)([0-9A-Za-z_-]{11})
\*   3: youtu\.be/([0-9A-Za-z_-]{11})
PatternAt(p, s, i) ==
    CASE p = 1 ->
            IF StartsAt(s, i, <<"v", "=">>) /\ IdAt(s, i + 2)
            THEN SubSeq(s, i + 2, i + 1 + IdLen)
            ELSE IF StartsAt(s, i, <<"/">>) /\ IdAt(s, i + 1)
            THEN SubSeq(s, i + 1, i + IdLen)
            ELSE None
      [] p = 2 ->
            IF StartsAt(s, i, EMBED) /\ IdAt(s, i + Len(EMBED))
            THEN SubSeq(s, i + Len(EMBED), i + Len(EMBED) + IdLen - 1)
            ELSE None
      [] p = 3 ->
            IF StartsAt(s, i, YOUTU_BE) /\ IdAt(s, i + Len(YOUTU_BE))
            THEN SubSeq(s, i + Len(YOUTU_BE), i + Len(YOUTU_BE) + IdLen - 1)
            ELSE None

\* re.search(pattern, url): the leftmost start position that matches
RECURSIVE SearchPattern(_, _, _)
SearchPattern(p, s, i) ==
    IF i > Len(s) THEN None
    ELSE IF PatternAt(p, s, i) # None THEN PatternAt(p, s, i)
    ELSE SearchPattern(p, s, i + 1)

\* for pattern in patterns: ... return match.group(1); return None
RECURSIVE TryPatterns(_, _)
TryPatterns(p, url) ==
    IF p > 3 THEN None
    ELSE IF SearchPattern(p, url, 1) # None THEN SearchPattern(p, url, 1)
    ELSE TryPatterns(p + 1, url)

extract_video_id(url) == TryPatterns(1, url)

(***************************************************************************)
(* format_duration                                                         *)
(***************************************************************************)
UNKNOWN == <<"U","n","k","n","o","w","n">>

\* (?:(\d+)U)? tried at position i: <<captured digits or None, next position>>
OptComponent(s, i, unit) ==
    LET e == RunEnd(s, i, Digits)
    IN IF e > i /\ e <= Len(s) /\ s[e] = unit
       THEN <<SubSeq(s, i, e - 1), e + 1>>
       ELSE <<None, i>>

\* " ".join(parts)
RECURSIVE JoinSpace(_)
JoinSpace(parts) ==
    IF parts = << >> THEN << >>
    ELSE IF Len(parts) = 1 THEN parts[1]
    ELSE parts[1] \o <<" ">> \o JoinSpace(Tail(parts))

\* format_duration testing the components as numbers: a zero one is left out
format_duration_SkipZero(duration) ==
    IF ~StartsAt(duration, 1, <<"P", "T">>) THEN UNKNOWN
    ELSE
        LET h == OptComponent(duration, 3, "H")
            m == OptComponent(duration, h[2], "M")
            s == OptComponent(duration, m[2], "S")
            shown(n) == n # None /\ \E k \in 1..Len(n) : n[k] # "0"
            parts == (IF shown(h[1]) THEN <<h[1] \o <<"h">>>> ELSE << >>)
                     \o (IF shown(m[1]) THEN <<m[1] \o <<"m">>>> ELSE << >>)
                     \o (IF shown(s[1]) THEN <<s[1] \o <<"s">>>> ELSE << >>)
        IN IF parts # << >> THEN JoinSpace(parts) ELSE <<"0", "s">>

format_duration(duration) ==
    IF ~StartsAt(duration, 1, <<"P", "T">>) THEN UNKNOWN
    ELSE
        LET h == OptComponent(duration, 3, "H")
            m == OptComponent(duration, h[2], "M")
            s == OptComponent(duration, m[2], "S")
            parts == (IF h[1] # None THEN <<h[1] \o <<"h">>>> ELSE << >>)
                     \o (IF m[1] # None THEN <<m[1] \o <<"m">>>> ELSE << >>)
                     \o (IF s[1] # None THEN <<s[1] \o <<"s">>>> ELSE << >>)
        IN IF parts # << >> THEN JoinSpace(parts) ELSE <<"0", "s">>

(***************************************************************************)
(* format_views                                                            *)
(***************************************************************************)
MILLION == 1000000
THOUSAND == 1000

RECURSIVE FloorLog2(_)
FloorLog2(n) == IF n < 2 THEN 0 ELSE 1 + FloorLog2(n \div 2)

Pow2Mod5(k) == CASE k % 4 = 0 -> 1 [] k % 4 = 1 -> 2 [] k % 4 = 2 -> 4 [] k % 4 = 3 -> 3

\* Tenths shown by f"{count / unit:.1f}": count / unit is the IEEE double nearest
\* the quotient and .1f rounds that double's exact value half-to-even.  Only a
\* decimal tie (the quotient ends in 5 hundredths) needs the double: the
\* quotient is then N/20 with N odd; it is a double exactly when 5 divides N
\* (x.25, x.75), and otherwise the double lies above the quotient exactly when
\* the bits cut after the 53rd significant one exceed one half, which is
\* (N * 2^(50 - e)) mod 5 > 2 with e the quotient's binary exponent.
RoundedTenths(count, unit) ==
    LET t == (10 * count) \div unit
        rem == (10 * count) % unit
    IN IF 2 * rem < unit THEN t
       ELSE IF 2 * rem > unit THEN t + 1
       ELSE LET N == 2 * t + 1
                e == FloorLog2(count \div unit)
            IN IF N % 5 = 0 THEN (IF t % 2 = 0 THEN t ELSE t + 1)
               ELSE IF ((N % 5) * Pow2Mod5(50 - e)) % 5 > 2 THEN t + 1
               ELSE t

\* f"{count / unit:.1f}{suffix}"
OneDecimal(count, unit, suffix) ==
    LET t == RoundedTenths(count, unit)
    IN IntToStr(t \div 10) \o <<".">> \o <<DigitOf[t % 10]>> \o <<suffix>>

\* format_views with strict thresholds (> for >=)
format_views_Strict(count) ==
    IF count > MILLION THEN OneDecimal(count, MILLION, "M")
    ELSE IF count > THOUSAND THEN OneDecimal(count, THOUSAND, "K")
    ELSE IntToStr(count)

format_views(count) ==
    IF count >= MILLION THEN OneDecimal(count, MILLION, "M")
    ELSE IF count >= THOUSAND THEN OneDecimal(count, THOUSAND, "K")
    ELSE IntToStr(count)

(***************************************************************************)
(* Response classification: the two regex scans and get_detective_reaction *)
(***************************************************************************)
BIAS_LABEL == <<"B","i","a","s",":">>
FACT_LABEL == <<"F","a","c","t","u","a","l","i","t","y",":">>
UNKNOWN_LEVEL == UNKNOWN

\* label\s*(\w+) matching at exactly position i: the captured word, else None
FieldAt(label, s, i) ==
    IF ~StartsAt(s, i, label) THEN None
    ELSE LET j == RunEnd(s, i + Len(label), SpaceChars)
             e == RunEnd(s, j, WordChars)
         IN IF e > j THEN SubSeq(s, j, e - 1) ELSE None

\* re.search(label\s*(\w+), analysis): first match only
RECURSIVE SearchField(_, _, _)
SearchField(label, s, i) ==
    IF i > Len(s) THEN None
    ELSE IF FieldAt(label, s, i) # None THEN FieldAt(label, s, i)
    ELSE SearchField(label, s, i + 1)

\* bias_match.group(1) if bias_match else "Unknown"
LevelOf(label, analysis) ==
    IF SearchField(label, analysis, 1) # None
    THEN SearchField(label, analysis, 1)
    ELSE UNKNOWN_LEVEL

LOW == <<"l","o","w">>
HIGH == <<"h","i","g","h">>
FACTUAL == <<"f","a","c","t","u","a","l">>
QUESTIONABLE == <<"q","u","e","s","t","i","o","n","a","b","l","e">>

\* CategoryOf without the two lower() calls
CategoryOf_CaseSensitive(bias_level, factuality) ==
    IF Contains(bias_level, LOW) /\ Contains(factuality, FACTUAL) THEN "low_factual"
    ELSE IF Contains(bias_level, HIGH) \/ Contains(factuality, QUESTIONABLE)
    THEN "high_questionable"
    ELSE "moderate_mixed"

\* the category chosen by get_detective_reaction
CategoryOf(bias_level, factuality) ==
    LET bias_lower == Lower(bias_level)
        fact_lower == Lower(factuality)
    IN IF Contains(bias_lower, LOW) /\ Contains(fact_lower, FACTUAL) THEN "low_factual"
       ELSE IF Contains(bias_lower, HIGH) \/ Contains(fact_lower, QUESTIONABLE)
       THEN "high_questionable"
       ELSE "moderate_mixed"

\* the three canned lines of each category (texts abbreviated)
reactions ==
    [low_factual |-> {"This one smells fresh!", "My whiskers approve!",
                      "Investigation complete - this checks out"},
     moderate_mixed |-> {"Something fishy here...", "Partial truth alert!",
                         "My detective senses tingling"},
     high_questionable |-> {"RED FLAG! High bias detected", "Strong bias present",
                            "Suspicious content detected"}]

\* the values random.choice(reactions[category]) can return
get_detective_reaction(bias_level, factuality) == reactions[CategoryOf(bias_level, factuality)]

\* lines 203-213: the reactions the classification of a response text can yield
ReactionsFor(response_text) ==
    LET analysis == Strip(response_text)
    IN get_detective_reaction(LevelOf(BIAS_LABEL, analysis), LevelOf(FACT_LABEL, analysis))

(***************************************************************************)
(* The inputs of a request                                                 *)
(***************************************************************************)
NumRequests == 1
\* requests in flight at once when their interleavings are explored
ConcRequests == 2

YOUTUBE_COM == <<"y","o","u","t","u","b","e",".","c","o","m">>
YOUTU_BE_HOST == <<"y","o","u","t","u",".","b","e">>

T_HELLO == <<"h","e","l","l","o">>
T_BARE_ID == <<"v","=","d","Q","w","4","w","9","W","g","X","c","Q">>
T_NO_ID == <<"y","o","u","t","u","b","e",".","c","o","m">>
T_WATCH == <<"y","o","u","t","u","b","e",".","c","o","m","/","w","a","t","c","h","?","v","=","d","Q","w","4","w","9","W","g","X","c","Q">>
T_SHORT == <<"y","o","u","t","u",".","b","e","/","d","Q","w","4","w","9","W","g","X","c","Q">>
VIDEO_ID == <<"d","Q","w","4","w","9","W","g","X","c","Q">>

\* message texts a user can send (the empty one also stands for an absent text)
Texts == {None, T_HELLO, T_BARE_ID, T_NO_ID, T_SHORT}

\* dict.get / dict[...] on the catalog's item: a field is ABSENT or Some(value)
ABSENT == << >>
Some(v) == <<v>>
ValueOf(field) == field[1]

\* viewCount as the service sends it: a number, or a str int() rejects
Views(n) == [numeric |-> TRUE, n |-> n]
BAD_VIEWS == [numeric |-> FALSE, n |-> 0]

PT0S == <<"P","T","0","S">>
PT3M33S == <<"P","T","3","M","3","3","S">>

\* items the catalog can return
ITEM_FULL == [title |-> Some("Sample"), channelTitle |-> Some("Chan"),
              duration |-> Some(PT3M33S), viewCount |-> Some(Views(1000000))]
ITEM_BARE == [title |-> Some("Bare"), channelTitle |-> ABSENT,
              duration |-> ABSENT, viewCount |-> ABSENT]
ITEM_NO_TITLE == [title |-> ABSENT, channelTitle |-> Some("Chan"),
                  duration |-> Some(PT0S), viewCount |-> Some(Views(5000))]
ITEM_BAD_VIEWS == [title |-> Some("Odd"), channelTitle |-> Some("Chan"),
                   duration |-> Some(PT0S), viewCount |-> Some(BAD_VIEWS)]
Items == {ITEM_FULL, ITEM_BARE, ITEM_NO_TITLE, ITEM_BAD_VIEWS}

\* outcomes of youtube.videos().list(...).execute()
CatalogResponses ==
    {[raised |-> TRUE, items |-> << >>], [raised |-> FALSE, items |-> << >>]}
    \cup {[raised |-> FALSE, items |-> <<it>>] : it \in Items}

A_LOW_FACTUAL == <<"B","i","a","s",":"," ","L","o","w","\n","o","k","\n","F","a","c","t","u","a","l","i","t","y",":"," ","F","a","c","t","u","a","l","\n">>
A_HIGH == <<"B","i","a","s",":"," ","H","i","g","h","\n","F","a","c","t","u","a","l","i","t","y",":"," ","O","p","i","n","i","o","n">>
A_NO_FIELDS == <<"n","/","a">>

\* outcomes of model.generate_content([prompt]) and of reading result.text
GenerateResults ==
    {[raised |-> TRUE, text |-> << >>]}
    \cup {[raised |-> FALSE, text |-> t] : t \in {A_LOW_FACTUAL, A_HIGH, A_NO_FIELDS}}

\* random.randint(1000, 9999): the two ends of the range
REPORT_MIN == 1000
REPORT_MAX == 9999
ReportNumbers == {REPORT_MIN, REPORT_MAX}

loading_messages == {"Investigating the evidence...", "Detective Jaime on the case...",
                     "Analyzing content patterns...", "Gathering intelligence..."}
not_a_link_reactions == {"That's not a YouTube link.", "I need a YouTube link to investigate.",
                         "Send me a YouTube link and I'll analyze it for you!"}

\* the content of a message: a plain text, or the fields of a report
NO_BODY == [plain |-> ""]
Plain(m) == [plain |-> m]

ErrorKinds == {"Invalid Evidence", "Video Not Found", "Fetch Error", "Analysis Error"}

(***************************************************************************)
(* The chat transport and the upstream services                            *)
(***************************************************************************)
\* variant: one status message shared by all requests, the last one sent
StatusMsgOf_Shared(r) == Len(chat)

\* the message edit_text of request r acts on: its own local status_msg
StatusMsgOf(r) == status_msg[r]

Call(op, kind, body, ok) == [op |-> op, kind |-> kind, body |-> body, ok |-> ok]

\* msg.reply_text(body): sends a new message, or raises (ok = FALSE) and sends nothing
ReplyText(r, kind, body, ok) ==
    /\ calls' = [calls EXCEPT ![r] = Append(@, Call("reply", kind, body, ok))]
    /\ chat' = IF ok
               THEN Append(chat, [owner |-> r, kind |-> kind, body |-> body,
                                  editedBy |-> << >>])
               ELSE chat

\* status_msg.edit_text(body): replaces the message's content, or raises and changes nothing
EditText(r, kind, body, ok) ==
    /\ calls' = [calls EXCEPT ![r] = Append(@, Call("edit", kind, body, ok))]
    /\ chat' = IF ok
               THEN [chat EXCEPT ![StatusMsgOf(r)] =
                        [@ EXCEPT !.kind = kind, !.body = body,
                                  !.editedBy = Append(@, r)]]
               ELSE chat

\* a call to one of the two upstream services ("catalog", "ai"); ok = it did not raise
UpstreamCall(r, service, ok) ==
    /\ calls' = [calls EXCEPT ![r] = Append(@, Call(service, service, NO_BODY, ok))]
    /\ chat' = chat

(***************************************************************************)
(* handle_message and summarize_youtube, one action per blocking call      *)
(***************************************************************************)
\* text and ("youtube.com" in text or "youtu.be" in text)
IsYouTubeLink(t) == t # None /\ (Contains(t, YOUTUBE_COM) \/ Contains(t, YOUTU_BE_HOST))

\* handle_message; on a link, summarize_youtube up to the placeholder reply
\* (line 132, on update.effective_message); otherwise the reply of line 331,
\* on update.message: when that is None the attribute access raises and
\* nothing is sent
HandleMessage(r, env) ==
    /\ pc[r] = "new"
    /\ \E t \in env.texts, present \in env.messages, ok \in BOOLEAN :
        /\ text' = [text EXCEPT ![r] = t]
        /\ IF IsYouTubeLink(t)
           THEN /\ \E m \in env.loading : ReplyText(r, "Loading", Plain(m), ok)
                /\ status_msg' = [status_msg EXCEPT ![r] = IF ok THEN Len(chat) + 1 ELSE 0]
                /\ pc' = [pc EXCEPT ![r] = IF ok THEN "started" ELSE "done"]
                /\ UNCHANGED message
           ELSE /\ message' = [message EXCEPT ![r] = present]
                /\ IF present
                   THEN \E m \in env.not_a_link : ReplyText(r, "Not A Link", Plain(m), ok)
                   ELSE UNCHANGED <<calls, chat>>
                /\ pc' = [pc EXCEPT ![r] = "done"]
                /\ UNCHANGED status_msg
    /\ UNCHANGED <<video_id, info, result, fnVars>>

\* lines 136-145 with id the value of line 135: without an id report it and
\* return, else call the catalog
FetchWith(r, id, env) ==
    /\ pc[r] = "started"
    /\ video_id' = [video_id EXCEPT ![r] = id]
    /\ IF id = None
       THEN /\ \E ok \in BOOLEAN : EditText(r, "Invalid Evidence", NO_BODY, ok)
            /\ pc' = [pc EXCEPT ![r] = "done"]
            /\ UNCHANGED info
       ELSE /\ \E resp \in env.catalog :
                  /\ info' = [info EXCEPT ![r] = resp]
                  /\ UpstreamCall(r, "catalog", ~resp.raised)
            /\ pc' = [pc EXCEPT ![r] = "fetched"]
    /\ UNCHANGED <<text, message, status_msg, result, fnVars>>

\* lines 135-145: extract the id, then as above
Fetch(r, env) == FetchWith(r, extract_video_id(text[r]), env)

\* the exception lines 153-162 raise on an item, "" when they run through:
\* snippet["title"] needs the key, and int() in format_views needs a number
MetadataError(item) ==
    IF item.title = ABSENT THEN "KeyError"
    ELSE IF item.viewCount # ABSENT /\ ~ValueOf(item.viewCount).numeric THEN "ValueError"
    ELSE ""

\* variant: no return after the not-found reply, so info["items"][0] raises
\* and the except clause replies once more
AfterFetch_NoReturn(r) ==
    /\ pc[r] = "fetched"
    /\ \E ok \in BOOLEAN :
        IF info[r].raised
        THEN /\ EditText(r, "Fetch Error", Plain("HttpError"), ok)
             /\ pc' = [pc EXCEPT ![r] = "done"]
        ELSE IF info[r].items = << >>
        THEN /\ EditText(r, "Video Not Found", NO_BODY, ok)
             /\ pc' = [pc EXCEPT ![r] = "fetch_except"]
        ELSE IF MetadataError(info[r].items[1]) # ""
        THEN /\ EditText(r, "Fetch Error", Plain(MetadataError(info[r].items[1])), ok)
             /\ pc' = [pc EXCEPT ![r] = "done"]
        ELSE /\ EditText(r, "Running", NO_BODY, ok)
             /\ pc' = [pc EXCEPT ![r] = IF ok THEN "analyze" ELSE "done"]
    /\ UNCHANGED <<text, message, status_msg, video_id, info, result, fnVars>>

\* variant: a failed catalog call is tried again instead of being reported
AfterFetch_Retry(r) ==
    /\ pc[r] = "fetched"
    /\ \E ok \in BOOLEAN :
        IF info[r].raised
        THEN /\ pc' = [pc EXCEPT ![r] = "started"]
             /\ UNCHANGED <<calls, chat>>
        ELSE IF info[r].items = << >>
        THEN /\ EditText(r, "Video Not Found", NO_BODY, ok)
             /\ pc' = [pc EXCEPT ![r] = IF ok THEN "done" ELSE "fetch_except"]
        ELSE IF MetadataError(info[r].items[1]) # ""
        THEN /\ EditText(r, "Fetch Error", Plain(MetadataError(info[r].items[1])), ok)
             /\ pc' = [pc EXCEPT ![r] = "done"]
        ELSE /\ EditText(r, "Running", NO_BODY, ok)
             /\ pc' = [pc EXCEPT ![r] = IF ok THEN "analyze" ELSE "done"]
    /\ UNCHANGED <<text, message, status_msg, video_id, info, result, fnVars>>

\* lines 147-169 after execute() came back: the not-found reply, the except
\* clause of the first try, or the "Running analysis" status
AfterFetch(r) ==
    /\ pc[r] = "fetched"
    /\ \E ok \in BOOLEAN :
        IF info[r].raised
        THEN /\ EditText(r, "Fetch Error", Plain("HttpError"), ok)
             /\ pc' = [pc EXCEPT ![r] = "done"]
        ELSE IF info[r].items = << >>
        THEN /\ EditText(r, "Video Not Found", NO_BODY, ok)
             /\ pc' = [pc EXCEPT ![r] = IF ok THEN "done" ELSE "fetch_except"]
        ELSE IF MetadataError(info[r].items[1]) # ""
        THEN /\ EditText(r, "Fetch Error", Plain(MetadataError(info[r].items[1])), ok)
             /\ pc' = [pc EXCEPT ![r] = "done"]
        ELSE /\ EditText(r, "Running", NO_BODY, ok)
             /\ pc' = [pc EXCEPT ![r] = IF ok THEN "analyze" ELSE "done"]
    /\ UNCHANGED <<text, message, status_msg, video_id, info, result, fnVars>>

\* lines 164-166 entered because the not-found edit itself raised
FetchExcept(r) ==
    /\ pc[r] = "fetch_except"
    /\ \E ok \in BOOLEAN : EditText(r, "Fetch Error", Plain("TelegramError"), ok)
    /\ pc' = [pc EXCEPT ![r] = "done"]
    /\ UNCHANGED <<text, message, status_msg, video_id, info, result, fnVars>>

\* line 202: the generative-text call
Generate(r, env) ==
    /\ pc[r] = "analyze"
    /\ \E res \in env.generate :
        /\ result' = [result EXCEPT ![r] = res]
        /\ UpstreamCall(r, "ai", ~res.raised)
    /\ pc' = [pc EXCEPT ![r] = "generated"]
    /\ UNCHANGED <<text, message, status_msg, video_id, info, fnVars>>

\* lines 153-162: title, channel, duration and views of a fetched item
Metadata(item) ==
    [title |-> ValueOf(item.title),
     channel |-> IF item.channelTitle = ABSENT THEN "Unknown"
                 ELSE ValueOf(item.channelTitle),
     duration |-> format_duration(IF item.duration = ABSENT THEN PT0S
                                  ELSE ValueOf(item.duration)),
     views |-> format_views(IF item.viewCount = ABSENT THEN 0
                            ELSE ValueOf(item.viewCount).n)]

\* lines 215-225: the report
Report(r, meta, analysis, number, reaction) ==
    [plain |-> "",
     number |-> number,
     title |-> meta.title,
     channel |-> meta.channel,
     duration |-> meta.duration,
     views |-> meta.views,
     link |-> video_id[r],
     analysis |-> analysis,
     reaction |-> reaction]

\* lines 215-231 with meta the locals of lines 158-162, analysis that of line
\* 203 and choices what random.choice at line 112 draws from: the report, or
\* the except clause
AfterGenerateWith(r, meta, analysis, choices, env) ==
    /\ pc[r] = "generated"
    /\ \E ok \in BOOLEAN :
        IF result[r].raised
        THEN /\ EditText(r, "Analysis Error", Plain("ServiceError"), ok)
             /\ pc' = [pc EXCEPT ![r] = "done"]
        ELSE /\ \E reaction \in choices, number \in env.numbers :
                    EditText(r, "Report", Report(r, meta, analysis, number, reaction), ok)
             /\ pc' = [pc EXCEPT ![r] = IF ok THEN "done" ELSE "analysis_except"]
    /\ UNCHANGED <<text, message, status_msg, video_id, info, result, fnVars>>

\* lines 203-231 after generate_content came back
AfterGenerate(r, env) ==
    AfterGenerateWith(r, Metadata(info[r].items[1]), Strip(result[r].text),
                      ReactionsFor(result[r].text), env)

\* lines 230-231 entered because the report edit itself raised
AnalysisExcept(r) ==
    /\ pc[r] = "analysis_except"
    /\ \E ok \in BOOLEAN : EditText(r, "Analysis Error", Plain("TelegramError"), ok)
    /\ pc' = [pc EXCEPT ![r] = "done"]
    /\ UNCHANGED <<text, message, status_msg, video_id, info, result, fnVars>>

\* what the surroundings of a run can supply: the user's texts, the values
\* random.choice / random.randint draw, and the outcomes of the upstream calls
FullEnv ==
    [texts |-> Texts, messages |-> BOOLEAN, loading |-> loading_messages, not_a_link |-> not_a_link_reactions,
     catalog |-> CatalogResponses, generate |-> GenerateResults, numbers |-> ReportNumbers]

\* a narrower choice for exploring interleavings of several requests
ConcEnv ==
    [texts |-> {T_HELLO, T_NO_ID, T_SHORT}, messages |-> BOOLEAN,
     loading |-> {"Investigating the evidence..."},
     not_a_link |-> {"That's not a YouTube link."},
     catalog |-> {[raised |-> TRUE, items |-> << >>], [raised |-> FALSE, items |-> << >>],
                  [raised |-> FALSE, items |-> <<ITEM_FULL>>]},
     generate |-> {[raised |-> TRUE, text |-> << >>], [raised |-> FALSE, text |-> A_HIGH]},
     numbers |-> {REPORT_MIN}]

Step(r, env) ==
    \/ HandleMessage(r, env)
    \/ Fetch(r, env)
    \/ AfterFetch(r)
    \/ FetchExcept(r)
    \/ Generate(r, env)
    \/ AfterGenerate(r, env)
    \/ AnalysisExcept(r)

NO_INFO == [raised |-> FALSE, items |-> << >>]
NO_RESULT == [raised |-> FALSE, text |-> << >>]

PipeInit(n) ==
    /\ pc = [r \in 1..n |-> "new"]
    /\ text = [r \in 1..n |-> None]
    /\ message = [r \in 1..n |-> TRUE]
    /\ status_msg = [r \in 1..n |-> 0]
    /\ video_id = [r \in 1..n |-> None]
    /\ info = [r \in 1..n |-> NO_INFO]
    /\ result = [r \in 1..n |-> NO_RESULT]
    /\ calls = [r \in 1..n |-> << >>]
    /\ chat = << >>

\* the requests of a behaviour
Reqs == DOMAIN pc

Init == PipeInit(NumRequests) /\ arg = None /\ ret = None /\ fpc = "off"

Next == \E r \in Reqs : Step(r, FullEnv)

Spec == Init /\ [][Next]_vars

\* several requests delivered at once, their blocking calls interleaved
InitConc == PipeInit(ConcRequests) /\ arg = None /\ ret = None /\ fpc = "off"

NextConc == \E r \in Reqs : Step(r, ConcEnv)

SpecConc == InitConc /\ [][NextConc]_vars

(***************************************************************************)
(* The pure helpers applied to bounded sets of arguments                   *)
(***************************************************************************)
\* the sequences of at most n elements of S
SeqsUpTo(S, n) == UNION {[1..k -> S] : k \in 0..n}

NoRequests == PipeInit(0)

\* -- extract_video_id ------------------------------------------------------
MaxUrlParts == 4
TEN_CHARS == <<"a","b","c","d","e","f","g","h","i","j">>
NOCOOKIE == <<"/","y","o","u","t","u","b","e","-","n","o","c","o","o","k","i","e",".","c","o","m","/">>
UrlParts == {<<"v", "=">>, <<"/">>, EMBED, YOUTU_BE, VIDEO_ID, TEN_CHARS, <<"x">>, <<"?">>,
             NOCOOKIE}
UrlInputs == {Concat(ps) : ps \in SeqsUpTo(UrlParts, MaxUrlParts)} \cup {T_WATCH, T_SHORT}

InitExtract == NoRequests /\ arg \in UrlInputs /\ ret = None /\ fpc = "ready"

ApplyExtract ==
    /\ fpc = "ready"
    /\ ret' = extract_video_id(arg)
    /\ fpc' = "done"
    /\ UNCHANGED <<arg, pipeVars>>

SpecExtract == InitExtract /\ [][ApplyExtract]_vars

\* -- format_duration -------------------------------------------------------
MaxDurParts == 3
DurNumbers == {<<"0">>, <<"7">>, <<"1", "2">>}
DurComponents == {n \o <<u>> : n \in DurNumbers, u \in {"H", "M", "S"}}
DurPrefixes == {<<"P", "T">>, <<"P">>, << >>, <<"p", "t">>, <<"P", "1", "D", "T">>}
DurTails == {<< >>, <<"X">>, <<"5">>, <<".", "5", "S">>}
DurationInputs ==
    {pre \o Concat(cs) \o tl :
        pre \in DurPrefixes, cs \in SeqsUpTo(DurComponents, MaxDurParts), tl \in DurTails}

InitDuration == NoRequests /\ arg \in DurationInputs /\ ret = None /\ fpc = "ready"

ApplyDuration ==
    /\ fpc = "ready"
    /\ ret' = format_duration(arg)
    /\ fpc' = "done"
    /\ UNCHANGED <<arg, pipeVars>>

SpecDuration == InitDuration /\ [][ApplyDuration]_vars

\* -- format_views ----------------------------------------------------------
MaxSmallViews == 5100
ViewWindow == 100
ViewStride == 50000
MaxViewSteps == 60
ViewInputs ==
    (0..MaxSmallViews)
    \cup ((MILLION - ViewWindow)..(MILLION + ViewWindow))
    \cup {k * ViewStride : k \in 0..MaxViewSteps}

InitViews == NoRequests /\ arg \in ViewInputs /\ ret = None /\ fpc = "ready"

ApplyViews ==
    /\ fpc = "ready"
    /\ ret' = format_views(arg)
    /\ fpc' = "done"
    /\ UNCHANGED <<arg, pipeVars>>

SpecViews == InitViews /\ [][ApplyViews]_vars

\* -- response classification -----------------------------------------------
MaxAnalysisParts == 4
AnalysisParts ==
    {<<"B","i","a","s",":"," ">>, <<"b","i","a","s",":"," ">>,
     <<"L","o","w","\n">>, <<"L","O","W","\n">>, <<"H","i","g","h","\n">>, <<"H","i","g","h">>,
     <<"F","a","c","t","u","a","l","i","t","y",":"," ">>,
     <<"F","a","c","t","u","a","l">>, <<"O","p","i","n","i","o","n">>}
AnalysisInputs == {Concat(ps) : ps \in SeqsUpTo(AnalysisParts, MaxAnalysisParts)}

InitClassify == NoRequests /\ arg \in AnalysisInputs /\ ret = "" /\ fpc = "ready"

\* result.text of a response, classified and answered with a random.choice
ApplyClassify ==
    /\ fpc = "ready"
    /\ \E reaction \in ReactionsFor(arg) : ret' = reaction
    /\ fpc' = "done"
    /\ UNCHANGED <<arg, pipeVars>>

SpecClassify == InitClassify /\ [][ApplyClassify]_vars

(***************************************************************************)
(* Claims about the pure helpers                                           *)
(***************************************************************************)
Min(S) == CHOOSE x \in S : \A y \in S : x <= y
Abs(x) == IF x < 0 THEN -x ELSE x
AllIn(s, cls) == \A k \in 1..Len(s) : s[k] \in cls

\* -- C5 --------------------------------------------------------------------
\* the text that introduces the identifier in each of the three URL shapes
Markers(p) ==
    CASE p = 1 -> {<<"v", "=">>, <<"/">>}
      [] p = 2 -> {<<"e","m","b","e","d","/">>}
      [] p = 3 -> {<<"y","o","u","t","u",".","b","e","/">>}

\* shape p occurs at position i: a marker, then 11 identifier characters
ShapeAt(p, s, i, m) ==
    /\ m \in Markers(p)
    /\ StartsAt(s, i, m)
    /\ i + Len(m) + 10 <= Len(s)
    /\ \A k \in 0..10 : s[i + Len(m) + k] \in IdChars

ShapePositions(p, s) == {i \in 1..Len(s) : \E m \in Markers(p) : ShapeAt(p, s, i, m)}
ShapesIn(s) == {p \in 1..3 : ShapePositions(p, s) # {}}

\* the identifier segment of the leftmost occurrence of the first shape present
SegmentOf(s) ==
    LET p == Min(ShapesIn(s))
        i == Min(ShapePositions(p, s))
        m == CHOOSE m \in Markers(p) : ShapeAt(p, s, i, m)
    IN [k \in 1..11 |-> s[i + Len(m) + k - 1]]

IsNumber(x) == x # << >> /\ AllIn(x, Digits)
IsPrefix(p, s) == Len(p) <= Len(s) /\ SubSeq(s, 1, Len(p)) = p
Component(n, unit) == IF n = None THEN << >> ELSE n \o <<unit>>
DurationText(d) ==
    <<"P", "T">> \o Component(d[1], "H") \o Component(d[2], "M") \o Component(d[3], "S")

\* every way to read a prefix of the token as PT, <n>H?, <n>M?, <n>S?
Readings(token) ==
    LET ns == {None} \cup {x \in {SubSeq(token, i, j) : i \in 1..Len(token), j \in 1..Len(token)} :
                              IsNumber(x)}
        hs == {h \in ns : IsPrefix(<<"P", "T">> \o Component(h, "H"), token)}
    IN UNION {UNION {{<<h, m, s>> : s \in {s \in ns : IsPrefix(DurationText(<<h, m, s>>), token)}} :
                        m \in {m \in ns : IsPrefix(DurationText(<<h, m, None>>), token)}} :
                h \in hs}

\* the token is PT followed by optional <n>H, <n>M, <n>S and nothing else
WellFormed(token) == \E d \in Readings(token) : DurationText(d) = token
Reading(token) == CHOOSE d \in Readings(token) : DurationText(d) = token

\* what the regex reads: each component in turn is taken whenever it is there
Rank(d) ==
    (IF d[1] # None THEN 4 ELSE 0) + (IF d[2] # None THEN 2 ELSE 0)
    + (IF d[3] # None THEN 1 ELSE 0)
GreedyReading(token) == CHOOSE d \in Readings(token) : \A e \in Readings(token) : Rank(e) <= Rank(d)

AllZero(d) == \A k \in 1..3 : d[k] = None \/ AllIn(d[k], {"0"})

\* the present units in the order hours, minutes, seconds, space-separated
Units(d) ==
    LET h == IF d[1] = None THEN << >> ELSE d[1] \o <<"h">>
        m == IF d[2] = None THEN << >> ELSE d[2] \o <<"m">>
        s == IF d[3] = None THEN << >> ELSE d[3] \o <<"s">>
        hm == IF h # << >> /\ m # << >> THEN h \o <<" ">> \o m ELSE h \o m
    IN IF hm # << >> /\ s # << >> THEN hm \o <<" ">> \o s ELSE hm \o s

ZERO_SECONDS == <<"0", "s">>

\* C6 as claimed: a token that is not PT followed by optional <n>H, <n>M, <n>S
\* and nothing else yields "Unknown"; a fully-zero or empty duration yields
\* "0s"; any other duration lists its present units as hours, minutes, seconds.
C6_Original ==
    fpc = "done" =>
        IF ~WellFormed(arg) THEN ret = UNKNOWN
        ELSE IF AllZero(Reading(arg)) THEN ret = ZERO_SECONDS
        ELSE ret = Units(Reading(arg))

\* C6 as amended: a token that does not begin with PT yields "Unknown"; a token
\* that begins with PT is read as far as its optional <n>H, <n>M, <n>S go and
\* the rest of it is ignored; with no component read the result is "0s",
\* otherwise the components read are listed as hours, minutes, seconds with
\* their digits as written, zeros included (PT0M0S gives "0m 0s").
C6_FormatDuration ==
    fpc = "done" =>
        IF ~IsPrefix(<<"P", "T">>, arg) THEN ret = UNKNOWN
        ELSE IF Rank(GreedyReading(arg)) = 0 THEN ret = ZERO_SECONDS
        ELSE ret = Units(GreedyReading(arg))

\* PT0M0S was formatted
C6_Witness ==
    /\ fpc = "done"
    /\ arg = <<"P","T","0","M","0","S">>
    /\ ret = <<"0","m"," ","0","s">>

\* -- C7 --------------------------------------------------------------------
DigitValue(c) == CHOOSE d \in 0..9 : DigitOf[d] = c

RECURSIVE ParseNat(_)
ParseNat(ds) ==
    IF ds = << >> THEN 0
    ELSE 10 * ParseNat(SubSeq(ds, 1, Len(ds) - 1)) + DigitValue(ds[Len(ds)])

\* a decimal numeral without sign or leading zeros
IsNumeral(ds) == IsNumber(ds) /\ (Len(ds) > 1 => ds[1] # "0")

\* out is a numeral, a point, exactly one digit and the suffix, and reads as
\* count / unit rounded to the nearest tenth
IsOneDecimal(out, suffix, count, unit) ==
    LET n == Len(out)
    IN /\ n >= 4
       /\ out[n] = suffix
       /\ out[n - 1] \in Digits
       /\ out[n - 2] = "."
       /\ IsNumeral(SubSeq(out, 1, n - 3))
       /\ LET tenths == 10 * ParseNat(SubSeq(out, 1, n - 3)) + DigitValue(out[n - 1])
          IN 2 * Abs(10 * count - tenths * unit) <= unit

\* C7: format_views gives count / 1,000,000 with exactly one decimal digit and
\* the suffix M from 1,000,000 on, count / 1,000 with exactly one decimal digit
\* and the suffix K from 1,000 on, and the plain integer below 1,000; so
\* 0 -> "0", 500 -> "500", 1000 -> "1.0K", 5000 -> "5.0K", 1000000 -> "1.0M"
\* and 1500000 -> "1.5M".
C7_FormatViews ==
    fpc = "done" =>
        /\ arg >= 1000000 => IsOneDecimal(ret, "M", arg, 1000000)
        /\ (arg >= 1000 /\ arg < 1000000) => IsOneDecimal(ret, "K", arg, 1000)
        /\ arg < 1000 => IsNumeral(ret) /\ ParseNat(ret) = arg
        /\ arg = 0 => ret = <<"0">>
        /\ arg = 500 => ret = <<"5","0","0">>
        /\ arg = 1000 => ret = <<"1",".","0","K">>
        /\ arg = 5000 => ret = <<"5",".","0","K">>
        /\ arg = 1000000 => ret = <<"1",".","0","M">>
        /\ arg = 1500000 => ret = <<"1",".","5","M">>

\* the threshold 1,000,000 itself was formatted
C7_Witness ==
    /\ fpc = "done"
    /\ arg = 1000000
    /\ ret = <<"1",".","0","M">>

\* -- C4 --------------------------------------------------------------------
ContainsAnyCase(s, p) == Contains(Lower(s), Lower(p))

BIAS_LOW == <<"B","i","a","s",":"," ","L","o","w">>
BIAS_HIGH == <<"B","i","a","s",":"," ","H","i","g","h">>
FACTUALITY_FACTUAL ==
    <<"F","a","c","t","u","a","l","i","t","y",":"," ","F","a","c","t","u","a","l">>

\* C4 as claimed: a response that contains "Bias: Low" and "Factuality:
\* Factual" in any letter case gets a low_factual reaction; one that contains
\* "Bias: High" in any letter case gets a high_questionable reaction whatever
\* its factuality; one with neither field gets a moderate_mixed reaction.  (A
\* response with both "Bias: Low" and "Bias: High" is left to the second rule.)
C4_Original ==
    fpc = "done" =>
        /\ (/\ ContainsAnyCase(arg, BIAS_LOW)
            /\ ContainsAnyCase(arg, FACTUALITY_FACTUAL)
            /\ ~ContainsAnyCase(arg, BIAS_HIGH)) => ret \in reactions.low_factual
        /\ ContainsAnyCase(arg, BIAS_HIGH) => ret \in reactions.high_questionable
        /\ (~ContainsAnyCase(arg, BIAS_LABEL) /\ ~ContainsAnyCase(arg, FACT_LABEL))
                => ret \in reactions.moderate_mixed

\* the places where the label, spelled exactly, is followed by optional white
\* space and a word
FieldPositions(label, s) ==
    {i \in 1..Len(s) :
        /\ StartsAt(s, i, label)
        /\ \E j \in (i + Len(label))..Len(s) :
            /\ s[j] \in WordChars
            /\ \A k \in (i + Len(label))..(j - 1) : s[k] \in SpaceChars}

\* the word of the first such place
FirstWord(label, s) ==
    LET i == Min(FieldPositions(label, s))
        j == Min({j \in (i + Len(label))..Len(s) : s[j] \in WordChars})
        e == Min({e \in j..Len(s) : e = Len(s) \/ s[e + 1] \notin WordChars})
    IN SubSeq(s, j, e)

FirstWordIs(label, s, word) ==
    FieldPositions(label, s) # {} /\ Lower(FirstWord(label, s)) = word

\* C4 as amended: the labels are matched as spelled, "Bias:" and
\* "Factuality:", and each field is the word after the first occurrence of its
\* label that a word follows; only the word is compared without regard to
\* letter case.  If the Bias word is Low and the Factuality word is Factual the
\* reaction is a low_factual one; if the Bias word is High it is a
\* high_questionable one whatever the factuality; if neither label occurs both
\* values are "Unknown" and the reaction is a moderate_mixed one.
C4_Classification ==
    fpc = "done" =>
        /\ (FirstWordIs(BIAS_LABEL, arg, LOW) /\ FirstWordIs(FACT_LABEL, arg, FACTUAL))
                => ret \in reactions.low_factual
        /\ FirstWordIs(BIAS_LABEL, arg, HIGH) => ret \in reactions.high_questionable
        /\ (~Contains(arg, BIAS_LABEL) /\ ~Contains(arg, FACT_LABEL))
                => /\ LevelOf(BIAS_LABEL, Strip(arg)) = UNKNOWN_LEVEL
                   /\ LevelOf(FACT_LABEL, Strip(arg)) = UNKNOWN_LEVEL
                   /\ ret \in reactions.moderate_mixed

\* "Bias: LOW" and "Factuality: Factual" were classified
C4_Witness ==
    /\ fpc = "done"
    /\ arg = <<"B","i","a","s",":"," ","L","O","W","\n",
               "F","a","c","t","u","a","l","i","t","y",":"," ","F","a","c","t","u","a","l">>
    /\ ret \in reactions.low_factual


(***************************************************************************)
(* Claims about handle_message and summarize_youtube                       *)
(***************************************************************************)
FinalKinds == ErrorKinds \cup {"Report"}

IsAppliedEdit(c) == c.op = "edit" /\ c.ok
IsTransport(c) == c.op \in {"reply", "edit"}

\* the edits of request r that took effect, in order
AppliedEdits(r) == SelectSeq(calls[r], IsAppliedEdit)

Positions(r) == 1..Len(calls[r])
LastCall(r) == calls[r][Len(calls[r])]

\* the handler of r has ended by returning, not by an exception leaving it
Returned(r) == pc[r] = "done" /\ calls[r] # << >> /\ LastCall(r).ok

\* the placeholder of r was sent: summarize_youtube has a status message
Started(r) == status_msg[r] # 0

\* what the user sees in the status message of r
Shown(r) == chat[status_msg[r]].kind

CatalogReturnedNothing(r) ==
    /\ video_id[r] # None
    /\ \E i \in Positions(r) : calls[r][i].op = "catalog" /\ calls[r][i].ok
    /\ info[r].items = << >>

\* C2: in every run where a video id is extracted and the catalog returns zero
\* items, the final reply is "Video Not Found", the generative-text service is
\* never called and the "Running analysis algorithms" status is never shown.
\* (Stated for the runs whose handler returned; a run ended by an exception of
\* the transport has no final reply of its own.)
C2_Original ==
    \A r \in Reqs :
        (Returned(r) /\ CatalogReturnedNothing(r)) =>
            /\ Shown(r) = "Video Not Found"
            /\ \A i \in Positions(r) : calls[r][i].op # "ai"
            /\ \A i \in Positions(r) : calls[r][i].kind # "Running"

\* -- C3 --------------------------------------------------------------------
MentionsYouTube(t) ==
    \E i \in 1..Len(t) :
        \/ i + 10 <= Len(t)
            /\ SubSeq(t, i, i + 10) = <<"y","o","u","t","u","b","e",".","c","o","m">>
        \/ i + 7 <= Len(t) /\ SubSeq(t, i, i + 7) = <<"y","o","u","t","u",".","b","e">>

\* C3: for every inbound text message that contains neither "youtube.com" nor
\* "youtu.be" (the empty or absent text included) handle_message sends exactly
\* one reply, one of the three fixed "not a link" strings, and the pipeline is
\* not entered: no placeholder, no catalog call, no generative-text call.  For
\* a text that contains one of the two the pipeline is entered: its first call
\* is the placeholder reply.
C3_Original ==
    \A r \in Reqs :
        pc[r] # "new" =>
            IF ~MentionsYouTube(text[r])
            THEN /\ pc[r] = "done"
                 /\ Len(calls[r]) = 1
                 /\ calls[r][1].op = "reply"
                 /\ calls[r][1].kind = "Not A Link"
                 /\ calls[r][1].body.plain \in not_a_link_reactions
                 /\ ~Started(r)
            ELSE /\ calls[r][1].op = "reply"
                 /\ calls[r][1].kind = "Loading"
                 /\ calls[r][1].body.plain \in loading_messages

\* -- C8 --------------------------------------------------------------------
CountOf(r, op) == Cardinality({i \in Positions(r) : calls[r][i].op = op})

\* at most one call to each service, the generative one only after a catalog
\* call that returned an item, and an error reply that is shown ends the run
SingleAttempt(r) ==
    /\ CountOf(r, "catalog") <= 1
    /\ CountOf(r, "ai") <= 1
    /\ \A i \in Positions(r) :
            calls[r][i].op = "ai" =>
                /\ \E j \in 1..(i - 1) : calls[r][j].op = "catalog" /\ calls[r][j].ok
                /\ info[r].items # << >>
    /\ \A i \in Positions(r) :
            (IsAppliedEdit(calls[r][i]) /\ calls[r][i].kind \in ErrorKinds) =>
                /\ i = Len(calls[r])
                /\ pc[r] = "done"
    /\ pc[r] = "done" => ~ENABLED Step(r, FullEnv)

\* the run ended on the final report or on an error reply, the only one shown
EndedOnReportOrError(r) ==
    /\ IsAppliedEdit(LastCall(r))
    /\ LastCall(r).kind \in FinalKinds
    /\ Cardinality({i \in Positions(r) :
                        IsAppliedEdit(calls[r][i]) /\ calls[r][i].kind \in FinalKinds}) = 1

\* C8 as claimed: in one run each service is called at most once, the
\* generative-text one only after a successful catalog fetch; once one of the
\* four error replies is shown no further call is made and the run ends; and
\* every started run ends with the final report or with its first error.
C8_Original ==
    \A r \in Reqs :
        /\ SingleAttempt(r)
        /\ (pc[r] = "done" /\ Started(r)) => EndedOnReportOrError(r)

\* C8 as amended: as claimed, except that a started run can also end because a
\* send or edit of the status message raised outside the two try blocks or
\* inside an except clause (lines 137, 165, 169, 231): the exception leaves the
\* handler and the placeholder, or the "Running analysis" status, stays.
C8_SingleAttempt ==
    \A r \in Reqs :
        /\ SingleAttempt(r)
        /\ (pc[r] = "done" /\ Started(r)) =>
                \/ EndedOnReportOrError(r)
                \/ IsTransport(LastCall(r)) /\ ~LastCall(r).ok

\* the "Running analysis" edit raised and ended a run that had fetched its video
C8_Witness ==
    \E r \in Reqs :
        /\ pc[r] = "done"
        /\ Started(r)
        /\ LastCall(r).kind = "Running"
        /\ ~LastCall(r).ok
        /\ CountOf(r, "catalog") = 1

\* -- C9 --------------------------------------------------------------------
\* C9: a "Fetch Error" reply is produced only when the catalog call itself
\* failed, and an "Analysis Error" reply only when the generative-text call
\* failed.
C9_Original ==
    \A r \in Reqs : \A i \in Positions(r) :
        /\ (calls[r][i].op = "edit" /\ calls[r][i].kind = "Fetch Error") =>
                \E j \in 1..(i - 1) : calls[r][j].op = "catalog" /\ ~calls[r][j].ok
        /\ (calls[r][i].op = "edit" /\ calls[r][i].kind = "Analysis Error") =>
                \E j \in 1..(i - 1) : calls[r][j].op = "ai" /\ ~calls[r][j].ok

\* -- C10 -------------------------------------------------------------------
\* the outcomes of the transport calls of r so far, in order
Outcomes(r) ==
    LET ts == SelectSeq(calls[r], IsTransport)
    IN [k \in 1..Len(ts) |-> ts[k].ok]

\* the calls one run makes, given its update (the text, and whether it is a
\* new message), what the two services answer and whether its k-th transport
\* call goes through (a call not yet made counts as going through)
RunOf(t, present, inf, res, oks) ==
    LET ok(k) == k > Len(oks) \/ oks[k]
        analysis == <<"ai">> \o (IF res.raised THEN <<"Analysis Error">>
                                 ELSE IF ok(3) THEN <<"Report">>
                                 ELSE <<"Report", "Analysis Error">>)
        fetched == IF inf.raised THEN <<"Fetch Error">>
                   ELSE IF inf.items = << >>
                   THEN (IF ok(2) THEN <<"Video Not Found">>
                         ELSE <<"Video Not Found", "Fetch Error">>)
                   ELSE IF inf.items[1].title = ABSENT THEN <<"Fetch Error">>
                   ELSE IF inf.items[1].viewCount # ABSENT
                           /\ ~inf.items[1].viewCount[1].numeric THEN <<"Fetch Error">>
                   ELSE IF ok(2) THEN <<"Running">> \o analysis
                   ELSE <<"Running">>
    IN IF ~MentionsYouTube(t) THEN (IF present THEN <<"Not A Link">> ELSE << >>)
       ELSE IF ~ok(1) THEN <<"Loading">>
       ELSE IF ShapesIn(t) = {} THEN <<"Loading", "Invalid Evidence">>
       ELSE <<"Loading", "catalog">> \o fetched

KindsOf(r) == [i \in Positions(r) |-> calls[r][i].kind]

\* Step(r, ConcEnv) is enabled; the values Fetch and AfterGenerate compute
\* from the request's own locals are worked out before their enabling is asked
CanStep(r) ==
    \/ ENABLED HandleMessage(r, ConcEnv)
    \/ /\ pc[r] = "started"
       /\ \E id \in {extract_video_id(text[r])} : ENABLED FetchWith(r, id, ConcEnv)
    \/ ENABLED AfterFetch(r)
    \/ ENABLED FetchExcept(r)
    \/ ENABLED Generate(r, ConcEnv)
    \/ /\ pc[r] = "generated"
       /\ \E meta \in {Metadata(info[r].items[1])}, analysis \in {Strip(result[r].text)},
             choices \in {ReactionsFor(result[r].text)} :
                ENABLED AfterGenerateWith(r, meta, analysis, choices, ConcEnv)
    \/ ENABLED AnalysisExcept(r)

\* C10: requests delivered concurrently are independent.  In every
\* interleaving of the requests' calls, a request edits only its own status
\* message and that message is edited by no other request; the calls a request
\* makes and where it ends are those of a run on its own, decided by its own
\* text, its own upstream responses and the fate of its own sends; and a
\* request that has not ended can always take its next step, whatever the
\* other requests did or failed at.
C10_Independent ==
    /\ \A m \in 1..Len(chat) :
            \A k \in 1..Len(chat[m].editedBy) : chat[m].editedBy[k] = chat[m].owner
    /\ \A r \in Reqs :
        /\ Started(r) =>
                /\ chat[status_msg[r]].owner = r
                /\ chat[status_msg[r]].editedBy = [i \in 1..Len(AppliedEdits(r)) |-> r]
        /\ pc[r] # "new" =>
                LET run == RunOf(text[r], message[r], info[r], result[r], Outcomes(r))
                IN /\ IsPrefix(KindsOf(r), run)
                   /\ pc[r] = "done" => KindsOf(r) = run
        /\ pc[r] # "done" => CanStep(r)

\* a request whose run ended in an error and a later one that got its report,
\* after their calls were interleaved
C10_Witness ==
    \E r1, r2 \in Reqs :
        /\ pc[r1] = "done" /\ pc[r2] = "done"
        /\ Started(r1) /\ Started(r2)
        /\ status_msg[r1] < status_msg[r2]
        /\ Shown(r1) \in ErrorKinds
        /\ Shown(r2) = "Report"

====
